---- MODULE Spec2Model ----
(***************************************************************************)
(* A model of package sliceutils (src/sliceutils/sliceut.go): generic      *)
(* slice helpers.  A Go slice is a header (pointer, offset, length) over a *)
(* backing array on the heap, so that sharing of storage between an input  *)
(* and a result is visible.  A caller draws its inputs, calls one          *)
(* operation, and may afterwards write through an input or a result, or    *)
(* call the same operation again on the same arguments.                    *)
(***************************************************************************)
EXTENDS Integers, Sequences, FiniteSets, TLC

VARIABLES heap, ins, ints, fval, op, out, ret, pc, calls, wrote,
          fn,      \* the function argument (key function, predicate, mapper), by name
          keys,    \* GroupBy's result: keys[g] is the key of bucket out[g]
          before   \* the elements of each argument slice when the call was entered

vars == <<heap, ins, ints, fval, op, out, ret, pc, calls, wrote, fn, keys, before>>

(* ------------------------------ bounds --------------------------------- *)

\* longest input slice drawn
MaxLen == 3
\* element values are 1..MaxVal
MaxVal == 2
\* width of the machine integer (Go's int), scaled down
IntBits == 8

Vals == 1..MaxVal

\* the zero value of the element type (what make() fills with)
Zero == 0

RECURSIVE Pow2(_)
Pow2(n) == IF n = 0 THEN 1 ELSE 2 * Pow2(n - 1)

MaxInt == Pow2(IntBits - 1) - 1
MinInt == -Pow2(IntBits - 1)

\* two's-complement wrap-around of Go's int arithmetic
Wrap(x) == ((x + Pow2(IntBits - 1)) % Pow2(IntBits)) - Pow2(IntBits - 1)

\* Go's integer division truncates toward zero (divisor > 0 here)
Quot(a, b) == IF a >= 0 THEN a \div b ELSE -((-a) \div b)

\* integer arguments tried: negative, zero, around the length, up to the maximum
ArgInts == {MinInt, -1} \cup (0..(MaxLen + 1)) \cup {MaxInt - 1, MaxInt}

SeqsUpTo(n) == UNION {[1..k -> Vals] : k \in 0..n}

\* what a caller can pass: the nil slice, or a slice holding some values
AbsInputs == {[nil |-> TRUE, vals |-> <<>>]} \cup
             {[nil |-> FALSE, vals |-> v] : v \in SeqsUpTo(MaxLen)}

(* --------------------------- heap and slices --------------------------- *)

\* the nil slice: no backing array
NilSlice == [ptr |-> 0, off |-> 0, len |-> 0]

\* the elements a slice header denotes
Elems(h, s) == [i \in 1..s.len |-> h[s.ptr][s.off + i]]

\* a fresh backing array holding vals, and the slice over it
Alloc(h, vals) ==
    [heap |-> Append(h, vals),
     s |-> [ptr |-> Len(h) + 1, off |-> 0, len |-> Len(vals)]]

\* a[i] = v through slice s (0-based i)
Store(h, s, i, v) == [h EXCEPT ![s.ptr][s.off + i + 1] = v]

\* results of an operation
Ret(a) == [heap |-> a.heap, out |-> <<a.s>>, panic |-> FALSE, bool |-> FALSE]
RetBool(h, b) == [heap |-> h, out |-> <<>>, panic |-> FALSE, bool |-> b]
Panic(h) == [heap |-> h, out |-> <<>>, panic |-> TRUE, bool |-> FALSE]

\* result := make([]T, len(slice)); copy(result, slice)
MakeCopy(h, s) == Alloc(h, Elems(h, s))

\* []T{}
EmptyLit(h) == Alloc(h, <<>>)

Swap(a, i, j) == [a EXCEPT ![i + 1] = a[j + 1], ![j + 1] = a[i + 1]]

(* ------------------------------ operations ----------------------------- *)

\* a faulty variant, for sensitivity of the checks: the swap written as two assignments without a temporary
RECURSIVE ReverseLoopLossy(_, _, _)
ReverseLoopLossy(a, i, j) ==
    IF i < j
    THEN ReverseLoopLossy([a EXCEPT ![i + 1] = a[j + 1]], i + 1, j - 1)
    ELSE a

\* Reverse: the loop  for i, j := 0, len-1; i < j; i, j = i+1, j-1
RECURSIVE ReverseLoop(_, _, _)
ReverseLoop(a, i, j) ==
    IF i < j THEN ReverseLoop(Swap(a, i, j), i + 1, j - 1) ELSE a

\* a faulty variant, for sensitivity of the checks: Reverse swapping in the caller's array, without make and copy
ReverseNoCopy(h, slice) ==
    IF slice.len = 0
    THEN Ret(EmptyLit(h))
    ELSE [heap |-> [h EXCEPT ![slice.ptr] =
                       [k \in 1..Len(@) |->
                           IF k > slice.off /\ k <= slice.off + slice.len
                           THEN @[2 * slice.off + slice.len + 1 - k]
                           ELSE @[k]]],
          out |-> <<slice>>, panic |-> FALSE, bool |-> FALSE]

Reverse(h, slice) ==
    IF slice.len = 0
    THEN Ret(EmptyLit(h))
    ELSE Ret(Alloc(h, ReverseLoop(Elems(h, slice), 0, slice.len - 1)))

\* Equals: the loop  for i, v := range slice1 { if v != slice2[i] ... }
RECURSIVE EqualsLoop(_, _, _)
EqualsLoop(a, b, i) ==
    IF i > Len(a) THEN TRUE
    ELSE IF a[i] # b[i] THEN FALSE
    ELSE EqualsLoop(a, b, i + 1)

\* a faulty variant, for sensitivity of the checks: Equals without the nil against non-nil test
EqualsNoNilCheck(h, slice1, slice2) ==
    IF slice1.len # slice2.len THEN RetBool(h, FALSE)
    ELSE RetBool(h, EqualsLoop(Elems(h, slice1), Elems(h, slice2), 1))

Equals(h, slice1, slice2) ==
    IF slice1.len # slice2.len THEN RetBool(h, FALSE)
    ELSE IF (slice1.ptr = 0) # (slice2.ptr = 0) THEN RetBool(h, FALSE)
    ELSE RetBool(h, EqualsLoop(Elems(h, slice1), Elems(h, slice2), 1))

\* ReverseInPlace swaps in the caller's backing array and returns the slice
RECURSIVE ReverseInPlaceLoop(_, _, _, _)
ReverseInPlaceLoop(h, slice, i, j) ==
    IF i < j
    THEN ReverseInPlaceLoop(
             Store(Store(h, slice, i, Elems(h, slice)[j + 1]),
                   slice, j, Elems(h, slice)[i + 1]),
             slice, i + 1, j - 1)
    ELSE h

\* a faulty variant, for sensitivity of the checks: ReverseInPlace working on a copy
ReverseInPlaceOnCopy(h, slice) ==
    Ret(Alloc(h, ReverseLoop(Elems(h, slice), 0, slice.len - 1)))

ReverseInPlace(h, slice) ==
    [heap |-> ReverseInPlaceLoop(h, slice, 0, slice.len - 1),
     out |-> <<slice>>, panic |-> FALSE, bool |-> FALSE]

\* Uniq: seen-set scan
RECURSIVE UniqLoop(_, _, _, _)
UniqLoop(a, i, seen, result) ==
    IF i > Len(a) THEN result
    ELSE IF a[i] \notin seen
         THEN UniqLoop(a, i + 1, seen \cup {a[i]}, Append(result, a[i]))
         ELSE UniqLoop(a, i + 1, seen, result)

Uniq(h, slice) ==
    IF slice.len = 0 THEN Ret(EmptyLit(h))
    ELSE IF slice.len = 1 THEN Ret(Alloc(h, <<Elems(h, slice)[1]>>))
    ELSE Ret(Alloc(h, UniqLoop(Elems(h, slice), 1, {}, <<>>)))

\* slice[lo:hi] of Chunk's loop: a header into the same backing array;
\* Go panics unless 0 <= lo <= hi <= cap
SubSlice(slice, lo, hi) == [ptr |-> slice.ptr, off |-> slice.off + lo, len |-> hi - lo]

RECURSIVE ChunkLoop(_, _, _, _)
ChunkLoop(slice, size, i, chunks) ==
    IF i < slice.len
    THEN LET end0 == Wrap(i + size)
             end == IF end0 > slice.len THEN slice.len ELSE end0
         IN  IF i < 0 \/ end < i
             THEN [out |-> chunks, panic |-> TRUE]
             ELSE ChunkLoop(slice, size, Wrap(i + size),
                            Append(chunks, SubSlice(slice, i, end)))
    ELSE [out |-> chunks, panic |-> FALSE]

\* chunksCount := (len(slice) + size - 1) / size, in wrapping int arithmetic
ChunksCount(n, size) == Quot(Wrap(Wrap(n + size) - 1), size)

Chunk(h, slice, size) ==
    IF size <= 0 \/ slice.len = 0
    THEN [heap |-> h, out |-> <<>>, panic |-> FALSE, bool |-> FALSE]
    ELSE IF ChunksCount(slice.len, size) < 0
         THEN Panic(h)  \* make([][]T, 0, chunksCount): cap out of range
         ELSE LET r == ChunkLoop(slice, size, 0, <<>>)
              IN  [heap |-> h, out |-> r.out, panic |-> r.panic, bool |-> FALSE]

\* Shuffle, as shipped: j := i % (i + 1)
RECURSIVE ShuffleLoop(_, _)
ShuffleLoop(a, i) ==
    IF i > 0
    THEN LET j == i % (i + 1) IN ShuffleLoop(Swap(a, i, j), i - 1)
    ELSE a

\* a faulty variant, for sensitivity of the checks: Shuffle without copy(result, slice)
ShuffleNoCopy(h, slice) ==
    IF slice.len <= 1
    THEN Ret(MakeCopy(h, slice))
    ELSE Ret(Alloc(h, ShuffleLoop([i \in 1..slice.len |-> Zero], slice.len - 1)))

Shuffle(h, slice) ==
    IF slice.len <= 1
    THEN Ret(MakeCopy(h, slice))
    ELSE Ret(Alloc(h, ShuffleLoop(Elems(h, slice), slice.len - 1)))

\* set := map built from a slice's values
RECURSIVE SetOf(_, _, _)
SetOf(a, i, set) ==
    IF i > Len(a) THEN set ELSE SetOf(a, i + 1, set \cup {a[i]})

\* a faulty variant, for sensitivity of the checks: Difference's scan dropping a value it has already emitted
RECURSIVE DifferenceLoopOnce(_, _, _, _)
DifferenceLoopOnce(a, i, set, result) ==
    IF i > Len(a) THEN result
    ELSE IF a[i] \notin set
         THEN DifferenceLoopOnce(a, i + 1, set \cup {a[i]}, Append(result, a[i]))
         ELSE DifferenceLoopOnce(a, i + 1, set, result)

RECURSIVE DifferenceLoop(_, _, _, _)
DifferenceLoop(a, i, set, result) ==
    IF i > Len(a) THEN result
    ELSE IF a[i] \notin set
         THEN DifferenceLoop(a, i + 1, set, Append(result, a[i]))
         ELSE DifferenceLoop(a, i + 1, set, result)

Difference(h, slice1, slice2) ==
    IF slice1.len = 0 THEN Ret(EmptyLit(h))
    ELSE IF slice2.len = 0 THEN Ret(MakeCopy(h, slice1))
    ELSE Ret(Alloc(h, DifferenceLoop(Elems(h, slice1), 1,
                                     SetOf(Elems(h, slice2), 1, {}), <<>>)))

\* a faulty variant, for sensitivity of the checks: Intersection's scan without the seen set
RECURSIVE IntersectionLoopNoSeen(_, _, _, _, _)
IntersectionLoopNoSeen(larger, i, set, seen, result) ==
    IF i > Len(larger) THEN result
    ELSE IF larger[i] \in set
         THEN IntersectionLoopNoSeen(larger, i + 1, set, seen,
                                     Append(result, larger[i]))
         ELSE IntersectionLoopNoSeen(larger, i + 1, set, seen, result)

RECURSIVE IntersectionLoop(_, _, _, _, _)
IntersectionLoop(larger, i, set, seen, result) ==
    IF i > Len(larger) THEN result
    ELSE IF larger[i] \in set /\ larger[i] \notin seen
         THEN IntersectionLoop(larger, i + 1, set, seen \cup {larger[i]},
                               Append(result, larger[i]))
         ELSE IntersectionLoop(larger, i + 1, set, seen, result)

\* the slice Intersection scans: the longer one, slice2 on a tie
Larger(slice1, slice2) == IF slice1.len <= slice2.len THEN slice2 ELSE slice1
Smaller(slice1, slice2) == IF slice1.len <= slice2.len THEN slice1 ELSE slice2

Intersection(h, slice1, slice2) ==
    IF slice1.len = 0 \/ slice2.len = 0 THEN Ret(EmptyLit(h))
    ELSE Ret(Alloc(h, IntersectionLoop(
                 Elems(h, Larger(slice1, slice2)), 1,
                 SetOf(Elems(h, Smaller(slice1, slice2)), 1, {}), {}, <<>>)))

\* a faulty variant, for sensitivity of the checks: Union whose second scan starts from an empty set
UnionFreshSet(h, slice1, slice2) ==
    IF slice1.len = 0 THEN Uniq(h, slice2)
    ELSE IF slice2.len = 0 THEN Uniq(h, slice1)
    ELSE LET r1 == UniqLoop(Elems(h, slice1), 1, {}, <<>>)
             r2 == UniqLoop(Elems(h, slice2), 1, {}, r1)
         IN  Ret(Alloc(h, r2))

\* Union: one set and one result across both scans
Union(h, slice1, slice2) ==
    IF slice1.len = 0 THEN Uniq(h, slice2)
    ELSE IF slice2.len = 0 THEN Uniq(h, slice1)
    ELSE LET r1 == UniqLoop(Elems(h, slice1), 1, {}, <<>>)
             r2 == UniqLoop(Elems(h, slice2), 1,
                            SetOf(Elems(h, slice1), 1, {}), r1)
         IN  Ret(Alloc(h, r2))

\* Concat: result = append(result, s...) for each s
RECURSIVE ConcatLoop(_, _, _, _)
ConcatLoop(h, slices, k, result) ==
    IF k > Len(slices) THEN result
    ELSE ConcatLoop(h, slices, k + 1, result \o Elems(h, slices[k]))

Concat(h, slices) ==
    IF Len(slices) = 0 THEN Ret(EmptyLit(h))
    ELSE Ret(Alloc(h, ConcatLoop(h, slices, 1, <<>>)))

Take(h, slice, n) ==
    IF n <= 0 THEN Ret(EmptyLit(h))
    ELSE IF n >= slice.len THEN Ret(MakeCopy(h, slice))
    ELSE Ret(Alloc(h, Elems(h, SubSlice(slice, 0, n))))

TakeLast(h, slice, n) ==
    IF n <= 0 THEN Ret(EmptyLit(h))
    ELSE IF n >= slice.len THEN Ret(MakeCopy(h, slice))
    ELSE LET startIdx == Wrap(slice.len - n)
         IN  Ret(Alloc(h, Elems(h, SubSlice(slice, startIdx, slice.len))))

\* a faulty variant, for sensitivity of the checks: Drop copying from n+1 on
DropOffByOne(h, slice, n) ==
    IF n <= 0 THEN Ret(MakeCopy(h, slice))
    ELSE IF n >= slice.len THEN Ret(EmptyLit(h))
    ELSE Ret(Alloc(h, Elems(h, SubSlice(slice, n + 1, slice.len))))

Drop(h, slice, n) ==
    IF n <= 0 THEN Ret(MakeCopy(h, slice))
    ELSE IF n >= slice.len THEN Ret(EmptyLit(h))
    ELSE Ret(Alloc(h, Elems(h, SubSlice(slice, n, slice.len))))

DropLast(h, slice, n) ==
    IF n <= 0 THEN Ret(MakeCopy(h, slice))
    ELSE IF n >= slice.len THEN Ret(EmptyLit(h))
    ELSE Ret(Alloc(h, Elems(h, SubSlice(slice, 0, Wrap(slice.len - n)))))

\* a faulty variant, for sensitivity of the checks: Fill's loop starting one position late
RECURSIVE FillLoopSkipFirst(_, _, _, _)
FillLoopSkipFirst(result, value, i, end) ==
    IF i + 1 < end
    THEN FillLoopSkipFirst([result EXCEPT ![i + 2] = value], value, i + 1, end)
    ELSE result

\* Fill: for i := start; i < end; i++ { result[i] = value }
RECURSIVE FillLoop(_, _, _, _)
FillLoop(result, value, i, end) ==
    IF i < end
    THEN FillLoop([result EXCEPT ![i + 1] = value], value, i + 1, end)
    ELSE result

Fill(h, slice, value, start, end) ==
    LET result == Elems(h, slice)
        start1 == IF start < 0 THEN 0 ELSE start
        end1 == IF end > Len(result) THEN Len(result) ELSE end
    IN  IF start1 >= end1 \/ start1 >= Len(result)
        THEN Ret(Alloc(h, result))
        ELSE Ret(Alloc(h, FillLoop(result, value, start1, end1)))

(* ------------------ operations taking a function argument -------------- *)

\* the functions a caller passes
KeyFns == {"identity", "parity", "constant"}
Preds == {"odd", "always", "never"}
FlatFns == {"twice", "nothing", "oddOnly"}

\* keyFn(x) of GroupBy, fn(x) of Map
ApplyKey(f, x) ==
    CASE f = "identity" -> x
      [] f = "parity" -> x % 2
      [] f = "constant" -> Zero

\* predicate(x)
ApplyPred(f, x) ==
    CASE f = "odd" -> x % 2 = 1
      [] f = "always" -> TRUE
      [] f = "never" -> FALSE

\* fn(x) of FlatMap: the elements of the slice it returns
ApplyFlat(f, x) ==
    CASE f = "twice" -> <<x, x>>
      [] f = "nothing" -> <<>>
      [] f = "oddOnly" -> IF x % 2 = 1 THEN <<x>> ELSE <<>>

\* one fresh backing array per element of bss; the headers in order
RECURSIVE AllocAll(_, _, _, _)
AllocAll(h, bss, k, hdrs) ==
    IF k > Len(bss) THEN [heap |-> h, out |-> hdrs]
    ELSE LET a == Alloc(h, bss[k])
         IN  AllocAll(a.heap, bss, k + 1, Append(hdrs, a.s))

\* several returned slices
RetAll(r) == [heap |-> r.heap, out |-> r.out, panic |-> FALSE, bool |-> FALSE]

\* Map: result[i] = fn(v)
RECURSIVE MapLoop(_, _, _, _)
MapLoop(a, f, i, result) ==
    IF i > Len(a) THEN result
    ELSE MapLoop(a, f, i + 1, [result EXCEPT ![i] = ApplyKey(f, a[i])])

Map(h, input, f) ==
    IF input.len = 0 THEN Ret(EmptyLit(h))
    ELSE Ret(Alloc(h, MapLoop(Elems(h, input), f, 1,
                              [i \in 1..input.len |-> Zero])))

\* Filter: append the elements that satisfy the predicate
RECURSIVE FilterLoop(_, _, _, _)
FilterLoop(a, f, i, result) ==
    IF i > Len(a) THEN result
    ELSE IF ApplyPred(f, a[i])
         THEN FilterLoop(a, f, i + 1, Append(result, a[i]))
         ELSE FilterLoop(a, f, i + 1, result)

Filter(h, input, f) ==
    IF input.len = 0 THEN Ret(EmptyLit(h))
    ELSE Ret(Alloc(h, FilterLoop(Elems(h, input), f, 1, <<>>)))

\* FlatMap: result = append(result, fn(v)...) for each v
RECURSIVE FlatMapLoop(_, _, _, _)
FlatMapLoop(a, f, i, result) ==
    IF i > Len(a) THEN result
    ELSE FlatMapLoop(a, f, i + 1, result \o ApplyFlat(f, a[i]))

FlatMap(h, input, f) ==
    IF input.len = 0 THEN Ret(EmptyLit(h))
    ELSE Ret(Alloc(h, FlatMapLoop(Elems(h, input), f, 1, <<>>)))

\* for i = 0; i < len(slice) && predicate(slice[i]); i++ {}  (0-based i)
RECURSIVE WhileLoop(_, _, _)
WhileLoop(a, f, i) ==
    IF i < Len(a) /\ ApplyPred(f, a[i + 1]) THEN WhileLoop(a, f, i + 1) ELSE i

TakeWhile(h, slice, f) ==
    IF slice.len = 0 THEN Ret(EmptyLit(h))
    ELSE LET i == WhileLoop(Elems(h, slice), f, 0)
         IN  Ret(Alloc(h, Elems(h, SubSlice(slice, 0, i))))

DropWhile(h, slice, f) ==
    IF slice.len = 0 THEN Ret(EmptyLit(h))
    ELSE LET i == WhileLoop(Elems(h, slice), f, 0)
         IN  Ret(Alloc(h, Elems(h, SubSlice(slice, i, slice.len))))

\* Partition: matching and nonMatching, both appended to in input order
RECURSIVE PartitionLoop(_, _, _, _, _)
PartitionLoop(a, f, i, matching, nonMatching) ==
    IF i > Len(a) THEN <<matching, nonMatching>>
    ELSE IF ApplyPred(f, a[i])
         THEN PartitionLoop(a, f, i + 1, Append(matching, a[i]), nonMatching)
         ELSE PartitionLoop(a, f, i + 1, matching, Append(nonMatching, a[i]))

Partition(h, slice, f) ==
    IF slice.len = 0
    THEN RetAll(AllocAll(h, <<<<>>, <<>>>>, 1, <<>>))
    ELSE RetAll(AllocAll(h, PartitionLoop(Elems(h, slice), f, 1, <<>>, <<>>),
                         1, <<>>))

\* a faulty variant, for sensitivity of the checks: GroupBy assigning []T{v} instead of appending
RECURSIVE GroupByLoopOverwrite(_, _, _, _, _)
GroupByLoopOverwrite(a, f, i, ks, bss) ==
    IF i > Len(a) THEN [keys |-> ks, buckets |-> bss]
    ELSE LET key == ApplyKey(f, a[i])
         IN  IF \E g \in 1..Len(ks) : ks[g] = key
             THEN LET g == CHOOSE g \in 1..Len(ks) : ks[g] = key
                  IN  GroupByLoopOverwrite(a, f, i + 1, ks,
                          [bss EXCEPT ![g] = <<a[i]>>])
             ELSE GroupByLoopOverwrite(a, f, i + 1, Append(ks, key),
                          Append(bss, <<a[i]>>))

\* GroupBy: result[key] = append(result[key], v); the map is kept as the keys
\* in order of creation and, beside each, its bucket
RECURSIVE GroupByLoop(_, _, _, _, _)
GroupByLoop(a, f, i, ks, bss) ==
    IF i > Len(a) THEN [keys |-> ks, buckets |-> bss]
    ELSE LET key == ApplyKey(f, a[i])
         IN  IF \E g \in 1..Len(ks) : ks[g] = key
             THEN LET g == CHOOSE g \in 1..Len(ks) : ks[g] = key
                  IN  GroupByLoop(a, f, i + 1, ks,
                                  [bss EXCEPT ![g] = Append(@, a[i])])
             ELSE GroupByLoop(a, f, i + 1, Append(ks, key), Append(bss, <<a[i]>>))

GroupBy(h, slice, f) ==
    IF slice.len = 0
    THEN [heap |-> h, out |-> <<>>, panic |-> FALSE, bool |-> FALSE, keys |-> <<>>]
    ELSE LET m == GroupByLoop(Elems(h, slice), f, 1, <<>>, <<>>)
             r == AllocAll(h, m.buckets, 1, <<>>)
         IN  [heap |-> r.heap, out |-> r.out, panic |-> FALSE, bool |-> FALSE,
              keys |-> m.keys]

\* minLen of Zip: the length of the shortest slice
RECURSIVE MinLen(_, _, _)
MinLen(slices, k, m) ==
    IF k > Len(slices) THEN m
    ELSE MinLen(slices, k + 1, IF slices[k].len < m THEN slices[k].len ELSE m)

\* Zip: result[i][j] = slices[j][i], each result[i] a fresh array
Zip(h, slices) ==
    IF Len(slices) = 0 THEN [heap |-> h, out |-> <<>>, panic |-> FALSE, bool |-> FALSE]
    ELSE LET minLen == MinLen(slices, 2, slices[1].len)
         IN  IF minLen = 0
             THEN [heap |-> h, out |-> <<>>, panic |-> FALSE, bool |-> FALSE]
             ELSE RetAll(AllocAll(h,
                      [i \in 1..minLen |->
                          [j \in 1..Len(slices) |-> Elems(h, slices[j])[i]]],
                      1, <<>>))


(* ------------------- operations returning no slice --------------------- *)

\* Reduce: acc = fn(acc, v), with fn the sum
RECURSIVE ReduceLoop(_, _, _)
ReduceLoop(a, i, acc) ==
    IF i > Len(a) THEN acc ELSE ReduceLoop(a, i + 1, acc + a[i])

Reduce(h, input, start) ==
    IF input.len = 0 THEN RetBool(h, start)
    ELSE RetBool(h, ReduceLoop(Elems(h, input), 1, start))

\* Find: the first element satisfying the predicate and true, or zero and false
RECURSIVE FindLoop(_, _, _)
FindLoop(a, f, i) ==
    IF i > Len(a) THEN <<Zero, FALSE>>
    ELSE IF ApplyPred(f, a[i]) THEN <<a[i], TRUE>>
    ELSE FindLoop(a, f, i + 1)

Find(h, input, f) ==
    IF input.len = 0 THEN RetBool(h, <<Zero, FALSE>>)
    ELSE RetBool(h, FindLoop(Elems(h, input), f, 1))

Some(h, input, f) ==
    IF input.len = 0 THEN RetBool(h, FALSE)
    ELSE RetBool(h, FindLoop(Elems(h, input), f, 1)[2])

\* Every: false at the first element failing the predicate
RECURSIVE EveryLoop(_, _, _)
EveryLoop(a, f, i) ==
    IF i > Len(a) THEN TRUE
    ELSE IF ~ApplyPred(f, a[i]) THEN FALSE
    ELSE EveryLoop(a, f, i + 1)

Every(h, input, f) ==
    IF input.len = 0 THEN RetBool(h, TRUE)
    ELSE RetBool(h, EveryLoop(Elems(h, input), f, 1))

\* IndexOf: the first i (0-based) with slice[i] == item, or -1
RECURSIVE IndexOfLoop(_, _, _)
IndexOfLoop(a, item, i) ==
    IF i >= Len(a) THEN -1
    ELSE IF a[i + 1] = item THEN i
    ELSE IndexOfLoop(a, item, i + 1)

IndexOf(h, slice, item) ==
    IF slice.len = 0 THEN RetBool(h, -1)
    ELSE RetBool(h, IndexOfLoop(Elems(h, slice), item, 0))

Includes(h, slice, item) == RetBool(h, IndexOf(h, slice, item).bool # -1)

\* LastIndexOf: for i := len(slice) - 1; i >= 0; i--
RECURSIVE LastIndexOfLoop(_, _, _)
LastIndexOfLoop(a, item, i) ==
    IF i < 0 THEN -1
    ELSE IF a[i + 1] = item THEN i
    ELSE LastIndexOfLoop(a, item, i - 1)

LastIndexOf(h, slice, item) ==
    IF slice.len = 0 THEN RetBool(h, -1)
    ELSE RetBool(h, LastIndexOfLoop(Elems(h, slice), item, slice.len - 1))

Contains(h, slice, f) == Some(h, slice, f)

\* ForEach, ForEachWithIndex: fn is called on each element (and index) in
\* order; the calls made are what the caller observes
ForEach(h, slice) == RetBool(h, Elems(h, slice))
ForEachWithIndex(h, slice) ==
    RetBool(h, [i \in 1..slice.len |-> <<i - 1, Elems(h, slice)[i]>>])

(* ------------------------------- the caller ---------------------------- *)

\* the caller's argument slices, laid out on the heap
RECURSIVE Load(_, _, _, _)
Load(h, absIns, k, hdrs) ==
    IF k > Len(absIns) THEN [heap |-> h, hdrs |-> hdrs]
    ELSE IF absIns[k].nil
         THEN Load(h, absIns, k + 1, Append(hdrs, NilSlice))
         ELSE LET a == Alloc(h, absIns[k].vals)
              IN  Load(a.heap, absIns, k + 1, Append(hdrs, a.s))

\* the call  name(slices..., is...)
Run(name, h, slices, is, v, f) ==
    CASE name = "Reverse" -> Reverse(h, slices[1])
      [] name = "ReverseInPlace" -> ReverseInPlace(h, slices[1])
      [] name = "Uniq" -> Uniq(h, slices[1])
      [] name = "Shuffle" -> Shuffle(h, slices[1])
      [] name = "Chunk" -> Chunk(h, slices[1], is[1])
      [] name = "Take" -> Take(h, slices[1], is[1])
      [] name = "TakeLast" -> TakeLast(h, slices[1], is[1])
      [] name = "Drop" -> Drop(h, slices[1], is[1])
      [] name = "DropLast" -> DropLast(h, slices[1], is[1])
      [] name = "Fill" -> Fill(h, slices[1], v, is[1], is[2])
      [] name = "Equals" -> Equals(h, slices[1], slices[2])
      [] name = "Difference" -> Difference(h, slices[1], slices[2])
      [] name = "Intersection" -> Intersection(h, slices[1], slices[2])
      [] name = "Union" -> Union(h, slices[1], slices[2])
      [] name = "Concat" -> Concat(h, slices)
      [] name = "Map" -> Map(h, slices[1], f)
      [] name = "Filter" -> Filter(h, slices[1], f)
      [] name = "FlatMap" -> FlatMap(h, slices[1], f)
      [] name = "TakeWhile" -> TakeWhile(h, slices[1], f)
      [] name = "DropWhile" -> DropWhile(h, slices[1], f)
      [] name = "Partition" -> Partition(h, slices[1], f)
      [] name = "GroupBy" -> GroupBy(h, slices[1], f)
      [] name = "Zip" -> Zip(h, slices)
      [] name = "Reduce" -> Reduce(h, slices[1], is[1])
      [] name = "Find" -> Find(h, slices[1], f)
      [] name = "Some" -> Some(h, slices[1], f)
      [] name = "Every" -> Every(h, slices[1], f)
      [] name = "Contains" -> Contains(h, slices[1], f)
      [] name = "Includes" -> Includes(h, slices[1], v)
      [] name = "IndexOf" -> IndexOf(h, slices[1], v)
      [] name = "LastIndexOf" -> LastIndexOf(h, slices[1], v)
      [] name = "ForEach" -> ForEach(h, slices[1])
      [] name = "ForEachWithIndex" -> ForEachWithIndex(h, slices[1])

\* the elements of each of the slices
ElemsAll(h, slices) == [k \in 1..Len(slices) |-> Elems(h, slices[k])]

\* the state after a call returned (or panicked)
Returned(name, r, slices, is, v, f, pre, nth) ==
    /\ fn' = f
    /\ keys' = IF "keys" \in DOMAIN r THEN r.keys ELSE <<>>
    /\ before' = pre
    /\ heap' = r.heap
    /\ ins' = slices
    /\ out' = r.out
    /\ ret' = r.bool
    /\ pc' = IF r.panic THEN "panicked" ELSE "returned"
    /\ op' = name
    /\ ints' = is
    /\ fval' = v
    /\ calls' = nth
    /\ wrote' = "none"

\* a first call: the arguments are laid out, the operation runs
EnterFn(name, absIns, is, v, f) ==
    LET ld == Load(<<>>, absIns, 1, <<>>)
    IN  Returned(name, Run(name, ld.heap, ld.hdrs, is, v, f), ld.hdrs, is, v, f,
                 ElemsAll(ld.heap, ld.hdrs), 1)

\* a first call of an operation that takes no function argument
Enter(name, absIns, is, v) == EnterFn(name, absIns, is, v, "none")

CallReverse ==
    /\ pc = "idle"
    /\ \E a \in AbsInputs : Enter("Reverse", <<a>>, <<>>, Zero)

CallReverseInPlace ==
    /\ pc = "idle"
    /\ \E a \in AbsInputs : Enter("ReverseInPlace", <<a>>, <<>>, Zero)

CallUniq ==
    /\ pc = "idle"
    /\ \E a \in AbsInputs : Enter("Uniq", <<a>>, <<>>, Zero)

CallShuffle ==
    /\ pc = "idle"
    /\ \E a \in AbsInputs : Enter("Shuffle", <<a>>, <<>>, Zero)

CallChunk ==
    /\ pc = "idle"
    /\ \E a \in AbsInputs, size \in ArgInts : Enter("Chunk", <<a>>, <<size>>, Zero)

CallTake ==
    /\ pc = "idle"
    /\ \E a \in AbsInputs, n \in ArgInts : Enter("Take", <<a>>, <<n>>, Zero)

CallTakeLast ==
    /\ pc = "idle"
    /\ \E a \in AbsInputs, n \in ArgInts : Enter("TakeLast", <<a>>, <<n>>, Zero)

CallDrop ==
    /\ pc = "idle"
    /\ \E a \in AbsInputs, n \in ArgInts : Enter("Drop", <<a>>, <<n>>, Zero)

CallDropLast ==
    /\ pc = "idle"
    /\ \E a \in AbsInputs, n \in ArgInts : Enter("DropLast", <<a>>, <<n>>, Zero)

CallFill ==
    /\ pc = "idle"
    /\ \E a \in AbsInputs, v \in Vals, start \in ArgInts, end \in ArgInts : Enter("Fill", <<a>>, <<start, end>>, v)

CallEquals ==
    /\ pc = "idle"
    /\ \E a \in AbsInputs, b \in AbsInputs : Enter("Equals", <<a, b>>, <<>>, Zero)

CallDifference ==
    /\ pc = "idle"
    /\ \E a \in AbsInputs, b \in AbsInputs : Enter("Difference", <<a, b>>, <<>>, Zero)

CallIntersection ==
    /\ pc = "idle"
    /\ \E a \in AbsInputs, b \in AbsInputs : Enter("Intersection", <<a, b>>, <<>>, Zero)

CallUnion ==
    /\ pc = "idle"
    /\ \E a \in AbsInputs, b \in AbsInputs : Enter("Union", <<a, b>>, <<>>, Zero)

CallConcat ==
    /\ pc = "idle"
    /\ \E a \in AbsInputs, b \in AbsInputs : Enter("Concat", <<a, b>>, <<>>, Zero)

CallMap ==
    /\ pc = "idle"
    /\ \E a \in AbsInputs, f \in KeyFns : EnterFn("Map", <<a>>, <<>>, Zero, f)

CallFilter ==
    /\ pc = "idle"
    /\ \E a \in AbsInputs, f \in Preds : EnterFn("Filter", <<a>>, <<>>, Zero, f)

CallFlatMap ==
    /\ pc = "idle"
    /\ \E a \in AbsInputs, f \in FlatFns : EnterFn("FlatMap", <<a>>, <<>>, Zero, f)

CallTakeWhile ==
    /\ pc = "idle"
    /\ \E a \in AbsInputs, f \in Preds : EnterFn("TakeWhile", <<a>>, <<>>, Zero, f)

CallDropWhile ==
    /\ pc = "idle"
    /\ \E a \in AbsInputs, f \in Preds : EnterFn("DropWhile", <<a>>, <<>>, Zero, f)

CallPartition ==
    /\ pc = "idle"
    /\ \E a \in AbsInputs, f \in Preds : EnterFn("Partition", <<a>>, <<>>, Zero, f)

CallGroupBy ==
    /\ pc = "idle"
    /\ \E a \in AbsInputs, f \in KeyFns : EnterFn("GroupBy", <<a>>, <<>>, Zero, f)

CallZip ==
    /\ pc = "idle"
    /\ \E a \in AbsInputs, b \in AbsInputs : Enter("Zip", <<a, b>>, <<>>, Zero)

CallFind ==
    /\ pc = "idle"
    /\ \E a \in AbsInputs, f \in Preds : EnterFn("Find", <<a>>, <<>>, Zero, f)

CallSome ==
    /\ pc = "idle"
    /\ \E a \in AbsInputs, f \in Preds : EnterFn("Some", <<a>>, <<>>, Zero, f)

CallEvery ==
    /\ pc = "idle"
    /\ \E a \in AbsInputs, f \in Preds : EnterFn("Every", <<a>>, <<>>, Zero, f)

CallContains ==
    /\ pc = "idle"
    /\ \E a \in AbsInputs, f \in Preds : EnterFn("Contains", <<a>>, <<>>, Zero, f)

CallIncludes ==
    /\ pc = "idle"
    /\ \E a \in AbsInputs, item \in Vals : Enter("Includes", <<a>>, <<>>, item)

CallIndexOf ==
    /\ pc = "idle"
    /\ \E a \in AbsInputs, item \in Vals : Enter("IndexOf", <<a>>, <<>>, item)

CallLastIndexOf ==
    /\ pc = "idle"
    /\ \E a \in AbsInputs, item \in Vals : Enter("LastIndexOf", <<a>>, <<>>, item)

CallForEach ==
    /\ pc = "idle"
    /\ \E a \in AbsInputs : Enter("ForEach", <<a>>, <<>>, Zero)

CallForEachWithIndex ==
    /\ pc = "idle"
    /\ \E a \in AbsInputs : Enter("ForEachWithIndex", <<a>>, <<>>, Zero)

CallReduce ==
    /\ pc = "idle"
    /\ \E a \in AbsInputs, start \in {0, 1} : Enter("Reduce", <<a>>, <<start>>, Zero)

\* the caller calls the same operation again on the same arguments
Recall ==
    /\ pc = "returned"
    /\ calls = 1
    /\ Returned(op, Run(op, heap, ins, ints, fval, fn), ins, ints, fval, fn,
                ElemsAll(heap, ins), 2)

\* after the call, the caller writes input k's position i
WriteInput ==
    /\ pc = "returned"
    /\ calls = 1
    /\ \E k \in 1..Len(ins) : \E i \in 0..(ins[k].len - 1) :
         \E v \in Vals \ {Elems(heap, ins[k])[i + 1]} :
            heap' = Store(heap, ins[k], i, v)
    /\ pc' = "written"
    /\ wrote' = "input"
    /\ UNCHANGED <<ins, ints, fval, op, out, ret, calls, fn, keys, before>>

\* after the call, the caller writes position i of returned slice g
WriteResult ==
    /\ pc = "returned"
    /\ calls = 1
    /\ \E g \in 1..Len(out) : \E i \in 0..(out[g].len - 1) :
         \E v \in Vals \ {Elems(heap, out[g])[i + 1]} :
            heap' = Store(heap, out[g], i, v)
    /\ pc' = "written"
    /\ wrote' = "result"
    /\ UNCHANGED <<ins, ints, fval, op, out, ret, calls, fn, keys, before>>

Init ==
    /\ heap = <<>>
    /\ ins = <<>>
    /\ ints = <<>>
    /\ fval = Zero
    /\ op = "none"
    /\ out = <<>>
    /\ ret = FALSE
    /\ pc = "idle"
    /\ calls = 0
    /\ wrote = "none"
    /\ fn = "none"
    /\ keys = <<>>
    /\ before = <<>>

Next ==
    \/ CallReverse
    \/ CallReverseInPlace
    \/ CallUniq
    \/ CallShuffle
    \/ CallChunk
    \/ CallTake
    \/ CallTakeLast
    \/ CallDrop
    \/ CallDropLast
    \/ CallFill
    \/ CallEquals
    \/ CallDifference
    \/ CallIntersection
    \/ CallUnion
    \/ CallConcat
    \/ CallMap
    \/ CallFilter
    \/ CallFlatMap
    \/ CallTakeWhile
    \/ CallDropWhile
    \/ CallPartition
    \/ CallGroupBy
    \/ CallZip
    \/ CallFind
    \/ CallSome
    \/ CallEvery
    \/ CallContains
    \/ CallIncludes
    \/ CallIndexOf
    \/ CallLastIndexOf
    \/ CallForEach
    \/ CallForEachWithIndex
    \/ CallReduce
    \/ Recall
    \/ WriteInput
    \/ WriteResult

Spec == Init /\ [][Next]_vars

(* ------------------------- views of the state -------------------------- *)

\* the elements of input k and of returned slice g, as the heap now holds them
In(k) == Elems(heap, ins[k])
Out(g) == Elems(heap, out[g])
AllIn == [k \in 1..Len(ins) |-> In(k)]
AllOut == [g \in 1..Len(out) |-> Out(g)]

RECURSIVE Flatten(_, _)
Flatten(ss, k) == IF k > Len(ss) THEN <<>> ELSE ss[k] \o Flatten(ss, k + 1)

Range(s) == {s[i] : i \in 1..Len(s)}

Distinct(s) == \A i, j \in 1..Len(s) : i # j => s[i] # s[j]

\* index of the first occurrence of x in s
FirstIdx(s, x) == CHOOSE i \in 1..Len(s) : s[i] = x /\ \A j \in 1..(i - 1) : s[j] # x

(* ------------------------------- claims -------------------------------- *)

\* C1: for every operation other than ReverseInPlace, no returned slice
\* shares storage with an input: a write to a position of an input changes no
\* element of any returned slice, and a write to a position of a returned
\* slice changes no element of any input.
C1_NoSharedStorage ==
    [][(pc = "returned" /\ pc' = "written" /\ op # "ReverseInPlace")
          => /\ (wrote' = "input" => AllOut' = AllOut)
             /\ (wrote' = "result" => AllIn' = AllIn)]_vars

\* C2: Shuffle is randomized: after Shuffle returned for an input of length
\* >= 2 with pairwise distinct elements, a second call on the same input can
\* return a different ordering than the first, and can return an ordering
\* different from the input's own.
C2_ShuffleRandomized ==
    (pc = "returned" /\ op = "Shuffle" /\ calls = 1
        /\ Len(In(1)) >= 2 /\ Distinct(In(1)))
    => /\ ENABLED (Recall /\ AllOut' # AllOut)
       /\ ENABLED (Recall /\ AllOut' # AllIn)

\* Reverse applied to what Reverse returned, compared with the input by Equals
ReverseTwiceEquals ==
    LET r2 == Reverse(heap, out[1])
    IN  Equals(r2.heap, r2.out[1], ins[1]).bool

\* C3 as stated: for every s, nil included, Equals(Reverse(Reverse(s)), s).
C3_ReverseInvolution ==
    (pc = "returned" /\ op = "Reverse") => ReverseTwiceEquals

\* C3 amended: for every present (non-nil) s, empty ones included,
\* Equals(Reverse(Reverse(s)), s); for the nil s, Reverse(Reverse(s)) is the
\* present empty slice, of the same length 0, which Equals tells apart from nil.
C3_ReverseInvolutionPresent ==
    (pc = "returned" /\ op = "Reverse") =>
        IF ins[1].ptr # 0
        THEN ReverseTwiceEquals
        ELSE LET r2 == Reverse(heap, out[1])
             IN  r2.out[1].len = 0 /\ r2.out[1].ptr # 0 /\ ~ReverseTwiceEquals

\* a Reverse of a slice that is not its own mirror image, reversed back
C3_Witness ==
    /\ pc = "returned" /\ op = "Reverse"
    /\ Len(In(1)) >= 3 /\ In(1)[1] # In(1)[Len(In(1))]
    /\ Out(1) # In(1)
    /\ ReverseTwiceEquals

\* C4: Take, TakeLast, Drop, DropLast, Chunk and Fill return without failing
\* for every input and every value of their integer arguments.
C4_NoFailure ==
    op \in {"Take", "TakeLast", "Drop", "DropLast", "Chunk", "Fill"}
        => pc # "panicked"

\* C5: Equals(a, b) is true exactly when a and b have the same length, are
\* both nil or both present, and agree at every index; nil against a present
\* empty slice is false in both orders, nil against nil and empty against
\* empty are true.
C5_EqualsExact ==
    (pc = "returned" /\ op = "Equals") =>
        LET a == ins[1]
            b == ins[2]
        IN  /\ ret <=> /\ a.len = b.len
                       /\ (a.ptr = 0) <=> (b.ptr = 0)
                       /\ \A i \in 1..a.len : In(1)[i] = In(2)[i]
            /\ (a.ptr = 0 /\ b.ptr # 0 /\ b.len = 0) => ~ret
            /\ (a.ptr # 0 /\ a.len = 0 /\ b.ptr = 0) => ~ret
            /\ (a.ptr = 0 /\ b.ptr = 0) => ret
            /\ (a.ptr # 0 /\ b.ptr # 0 /\ a.len = 0 /\ b.len = 0) => ret

\* Equals of nil and a present empty slice returned false
C5_Witness ==
    /\ pc = "returned" /\ op = "Equals"
    /\ ins[1].ptr = 0 /\ ins[2].ptr # 0 /\ ins[2].len = 0
    /\ ~ret

\* C6: for 0 <= n <= len(s), Concat(Take(s, n), Drop(s, n)) has the length
\* and the elements of s; Take returns the first n elements and Drop the
\* remaining ones.
C6_TakeDropConcat ==
    (pc = "returned" /\ op = "Take" /\ 0 <= ints[1] /\ ints[1] <= ins[1].len) =>
        LET n == ints[1]
            d == Drop(heap, ins[1], n)
            c == Concat(d.heap, <<out[1], d.out[1]>>)
            joined == Elems(c.heap, c.out[1])
        IN  /\ Len(joined) = Len(In(1))
            /\ \A i \in 1..Len(In(1)) : joined[i] = In(1)[i]
            /\ Out(1) = SubSeq(In(1), 1, n)
            /\ Elems(d.heap, d.out[1]) = SubSeq(In(1), n + 1, Len(In(1)))

\* a Take strictly inside the slice, whose Drop is the non-empty rest
C6_Witness ==
    /\ pc = "returned" /\ op = "Take"
    /\ 0 < ints[1] /\ ints[1] < ins[1].len
    /\ Len(Out(1)) = ints[1]
    /\ LET d == Drop(heap, ins[1], ints[1])
       IN  Out(1) \o Elems(d.heap, d.out[1]) = In(1)

\* C7: Intersection(a, b) holds exactly the values in both a and b, each
\* once, in the order of first occurrence in the longer input (b on a tie);
\* it is empty when either input is empty.
C7_IntersectionExact ==
    (pc = "returned" /\ op = "Intersection") =>
        LET a == In(1)
            b == In(2)
            r == Out(1)
            outer == IF Len(a) > Len(b) THEN a ELSE b
        IN  /\ Range(r) = Range(a) \cap Range(b)
            /\ Distinct(r)
            /\ \A i, j \in 1..Len(r) :
                  i < j => FirstIdx(outer, r[i]) < FirstIdx(outer, r[j])
            /\ (Len(a) = 0 \/ Len(b) = 0) => Len(r) = 0

\* two common values, one of them repeated in the scanned input, each kept once
C7_Witness ==
    /\ pc = "returned" /\ op = "Intersection"
    /\ Len(Out(1)) = 2
    /\ Len(In(2)) >= Len(In(1))
    /\ ~Distinct(In(2))
    /\ Out(1)[1] = In(2)[1]

\* C8: Difference(a, b) is the subsequence of a of the elements whose value
\* is not in b, order and multiplicity kept; a copy of a when b is empty,
\* empty when a is empty.
C8_DifferenceExact ==
    (pc = "returned" /\ op = "Difference") =>
        LET a == In(1)
            b == In(2)
            r == Out(1)
            Absent(x) == x \notin Range(b)
        IN  /\ r = SelectSeq(a, Absent)
            /\ Len(b) = 0 => r = a
            /\ Len(a) = 0 => Len(r) = 0

\* a value of a that b lacks, kept twice, while another value of a is dropped
C8_Witness ==
    /\ pc = "returned" /\ op = "Difference"
    /\ Len(In(2)) > 0
    /\ Len(Out(1)) = 2 /\ Out(1)[1] = Out(1)[2]
    /\ Len(In(1)) = 3

\* C9: Union(a, b) equals Uniq(Concat(a, b)) element for element: every value
\* of a or b exactly once, in the order of first occurrence in a followed by b.
C9_UnionIsUniqConcat ==
    (pc = "returned" /\ op = "Union") =>
        LET c == Concat(heap, ins)
            u == Uniq(c.heap, c.out[1])
            r == Out(1)
            ab == In(1) \o In(2)
        IN  /\ r = Elems(u.heap, u.out[1])
            /\ Distinct(r)
            /\ Range(r) = Range(In(1)) \cup Range(In(2))
            /\ \A i, j \in 1..Len(r) :
                  i < j => FirstIdx(ab, r[i]) < FirstIdx(ab, r[j])

\* a Union of two non-empty slices that overlap, b bringing a new value
C9_Witness ==
    /\ pc = "returned" /\ op = "Union"
    /\ Len(In(1)) >= 2 /\ Len(In(2)) >= 2
    /\ Range(In(1)) \cap Range(In(2)) # {}
    /\ Range(In(2)) \ Range(In(1)) # {}
    /\ Len(Out(1)) = 2

\* ceil(n / size) for n >= 0, size >= 1
CeilDiv(n, size) == (n + size - 1) \div size

\* C10: for a non-empty s and size >= 1, Chunk(s, size) returns
\* ceil(len(s)/size) groups, all but the last of size elements, the last of
\* 1..size elements, which concatenated give s; for size <= 0 or an empty s
\* it returns zero groups.
C10_ChunkGroups ==
    (op = "Chunk" /\ pc \in {"returned", "panicked"}) =>
        /\ pc = "returned"
        /\ IF ints[1] >= 1 /\ ins[1].len > 0
           THEN /\ Len(out) = CeilDiv(ins[1].len, ints[1])
                /\ \A g \in 1..(Len(out) - 1) : out[g].len = ints[1]
                /\ out[Len(out)].len \in 1..ints[1]
                /\ Flatten(AllOut, 1) = In(1)
           ELSE Len(out) = 0

\* clamp(x, lo, hi)
Clamp(x, lo, hi) == IF x < lo THEN lo ELSE IF x > hi THEN hi ELSE x

\* C11: Fill(s, v, start, end) returns a slice of the length of s whose
\* position i holds v when clamp(start,0,len) <= i < clamp(end,0,len) and s[i]
\* otherwise; when the clamped range is empty or inverted the result is an
\* unmodified copy of s.
C11_FillRange ==
    (pc = "returned" /\ op = "Fill") =>
        LET s == In(1)
            n == Len(s)
            lo == Clamp(ints[1], 0, n)
            hi == Clamp(ints[2], 0, n)
            r == Out(1)
        IN  /\ Len(r) = n
            /\ \A i \in 0..(n - 1) :
                  r[i + 1] = IF lo <= i /\ i < hi THEN fval ELSE s[i + 1]
            /\ lo >= hi => r = s

\* a Fill strictly inside the slice that changed the one position it covers
C11_Witness ==
    /\ pc = "returned" /\ op = "Fill"
    /\ ints = <<1, 2>> /\ Len(In(1)) = 3
    /\ Out(1)[2] = fval /\ In(1)[2] # fval
    /\ Out(1)[1] = In(1)[1] /\ Out(1)[3] = In(1)[3]

\* how often v occurs in s
Count(s, v) == Cardinality({i \in 1..Len(s) : s[i] = v})

\* C12: Shuffle(s) is a permutation of s: the same length and every value
\* with the same multiplicity; empty for a nil or empty input.
C12_ShufflePermutation ==
    (pc = "returned" /\ op = "Shuffle") =>
        /\ Len(Out(1)) = Len(In(1))
        /\ \A v \in Vals \cup {Zero} : Count(Out(1), v) = Count(In(1), v)
        /\ Len(In(1)) = 0 => Len(Out(1)) = 0

\* a Shuffle of three elements, one value occurring twice
C12_Witness ==
    /\ pc = "returned" /\ op = "Shuffle"
    /\ Len(In(1)) = 3 /\ Count(In(1), 1) = 2 /\ Count(Out(1), 1) = 2
    /\ Count(Out(1), 2) = 1

\* C13: after ReverseInPlace(s) returns, position i of the caller's s holds
\* what position len(s)-1-i held before the call; the returned slice is the
\* storage of s (same array, offset and length, so that after a write through
\* either both read the same); an empty or single-element s is unchanged.
C13_ReverseInPlace ==
    (op = "ReverseInPlace" /\ pc \in {"returned", "written"}) =>
        /\ out = <<ins[1]>>
        /\ AllOut = AllIn
        /\ pc = "returned" =>
              /\ Len(In(1)) = Len(before[1])
              /\ \A i \in 0..(Len(In(1)) - 1) :
                    In(1)[i + 1] = before[1][Len(In(1)) - i]
              /\ Len(In(1)) <= 1 => In(1) = before[1]

\* the caller's three elements, not a mirror image of themselves, now reversed
C13_Witness ==
    /\ op = "ReverseInPlace" /\ pc = "returned" /\ calls = 1
    /\ Len(In(1)) = 3 /\ In(1) # before[1]
    /\ In(1)[1] = before[1][3] /\ In(1)[3] = before[1][1]
    /\ Out(1) = In(1)

\* C14: every operation other than ReverseInPlace leaves each input as it
\* was: after the call returns, every input has the length and the elements
\* it had when the call was entered.
C14_InputsUnchanged ==
    (pc = "returned" /\ op # "ReverseInPlace") =>
        /\ Len(ins) = Len(before)
        /\ \A k \in 1..Len(ins) :
              /\ ins[k].len = Len(before[k])
              /\ \A i \in 1..ins[k].len : In(k)[i] = before[k][i]

\* Reverse returned the mirror image and the input still reads as before
C14_Witness ==
    /\ pc = "returned" /\ op = "Reverse"
    /\ Len(In(1)) = 3 /\ Out(1) # In(1)
    /\ In(1) = before[1]

\* C15: GroupBy(s, keyFn) puts each element of s in exactly one bucket, that
\* of key keyFn(element): the keys are the keyFn values over s, each once, no
\* bucket is empty, the bucket lengths sum to len(s), and each bucket holds
\* its elements in their order in s; for an empty s the mapping is empty.
C15_GroupByBuckets ==
    (pc = "returned" /\ op = "GroupBy") =>
        LET s == In(1)
        IN  /\ Len(keys) = Len(out)
            /\ Distinct(keys)
            /\ Range(keys) = {ApplyKey(fn, s[i]) : i \in 1..Len(s)}
            /\ Len(Flatten(AllOut, 1)) = Len(s)
            /\ \A g \in 1..Len(out) :
                  LET HasKey(x) == ApplyKey(fn, x) = keys[g]
                  IN  Len(Out(g)) > 0 /\ Out(g) = SelectSeq(s, HasKey)
            /\ Len(s) = 0 => Len(out) = 0

\* three elements grouped by parity into a bucket of two and a bucket of one
C15_Witness ==
    /\ pc = "returned" /\ op = "GroupBy" /\ fn = "parity"
    /\ Len(In(1)) = 3 /\ Len(out) = 2
    /\ Len(Out(1)) = 2 /\ Len(Out(2)) = 1
    /\ In(1)[1] = In(1)[3]

====
